---------------------------- MODULE Spec2Model ----------------------------
(***************************************************************************)
(* Idle-shutdown lambda for RDS instances and Aurora clusters              *)
(* (src/lambda.py): the idle policy (get_effective_idle_minutes,           *)
(* is_instance_idle), the sweep (handle_check) and the on-demand start     *)
(* (handle_start).                                                         *)
(*                                                                         *)
(* Python strings that the code parses or splits are sequences of          *)
(* one-character strings; identifiers and statuses that the code only      *)
(* compares are TLA+ strings.  CPU percentages are integers in tenths of   *)
(* a percent (1.0% is 10).                                                 *)
(***************************************************************************)
EXTENDS Integers, Sequences, FiniteSets, TLC

VARIABLES
    env,          \* module-level configuration read from the environment
    pc,           \* position of the running handler
    catalog,      \* what describe_db_instances / describe_db_clusters return
    default_idle, \* handle_check local
    lookback_mins,\* handle_check local
    actions,      \* handle_check local: the action log
    todo,         \* handle_check: resources of the running loop still to visit
    calls,        \* collaborator calls made so far, each with its answer
    faults,       \* collaborator failures injected so far
    event,        \* the event handle_start was invoked with
    result,       \* what the handler returned
    pin,          \* input of the policy function under test
    pout          \* its output

vars == <<env, pc, catalog, default_idle, lookback_mins, actions, todo,
          calls, faults, event, result, pin, pout>>

-----------------------------------------------------------------------------
(* Bounds of the model *)

\* longest IdleMinutes tag value drawn for get_effective_idle_minutes
MaxOverrideLen == 2
\* most datapoints CloudWatch returns for one metric
MaxPoints == 2
\* clusters the account holds
MaxClusters == 1
\* collaborator failures injected in one sweep
MaxFaults == 1

-----------------------------------------------------------------------------
(* Python values *)

None == <<"<None>">>

Truthy(v) == v # None /\ v # <<>>

Min(a, b) == IF a <= b THEN a ELSE b

RECURSIVE MaxOf(_)
MaxOf(s) == IF Len(s) = 1 THEN s[1]
            ELSE LET m == MaxOf(Tail(s)) IN IF s[1] >= m THEN s[1] ELSE m

RECURSIVE SumOf(_)
SumOf(s) == IF s = <<>> THEN 0 ELSE s[1] + SumOf(Tail(s))

Strs(alphabet, n) == UNION {[1..k -> alphabet] : k \in 0..n}

DigitVal == [c \in {"0", "1", "2", "3", "4", "5", "6", "7", "8", "9"} |->
               CASE c = "0" -> 0 [] c = "1" -> 1 [] c = "2" -> 2 [] c = "3" -> 3
                 [] c = "4" -> 4 [] c = "5" -> 5 [] c = "6" -> 6 [] c = "7" -> 7
                 [] c = "8" -> 8 [] c = "9" -> 9]

RECURSIVE Strip(_)
Strip(s) == IF s = <<>> THEN s
            ELSE IF Head(s) = " " THEN Strip(Tail(s))
            ELSE IF s[Len(s)] = " " THEN Strip(SubSeq(s, 1, Len(s) - 1))
            ELSE s

RECURSIVE DigitsValue(_)
DigitsValue(s) == IF s = <<>> THEN 0
                  ELSE DigitsValue(SubSeq(s, 1, Len(s) - 1)) * 10 + DigitVal[s[Len(s)]]

\* int(str): surrounding blanks stripped, an optional sign, then one or more
\* decimal digits; anything else raises ValueError.
int(s) ==
    LET t    == Strip(s)
        sgn  == t # <<>> /\ Head(t) \in {"+", "-"}
        body == IF sgn THEN Tail(t) ELSE t
        ok   == body # <<>> /\ \A i \in 1..Len(body) : body[i] \in DOMAIN DigitVal
    IN  IF ~ok THEN [raises |-> TRUE, val |-> 0]
        ELSE [raises |-> FALSE,
              val |-> IF sgn /\ Head(t) = "-" THEN 0 - DigitsValue(body)
                      ELSE DigitsValue(body)]

startswith(s, p) == Len(s) >= Len(p) /\ SubSeq(s, 1, Len(p)) = p

\* s.split(sep, 1)[1]: what follows the first occurrence of sep in s
split1_after(s, sep) ==
    LET occ == {i \in 1..(Len(s) - Len(sep) + 1) : SubSeq(s, i, i + Len(sep) - 1) = sep}
        first == CHOOSE i \in occ : \A j \in occ : i <= j
    IN  SubSeq(s, first + Len(sep), Len(s))

-----------------------------------------------------------------------------
(* Configuration: lines 14-21 *)

DEFAULT_LOOKBACK_MINUTES == 20
CPU_PCT_THRESHOLD == 10
IOPS_THRESHOLD == 0
CONNECTIONS_THRESHOLD == 0
FALLBACK_IDLE_MINUTES == 30

DefaultEnv == [LOOKBACK_MINUTES      |-> DEFAULT_LOOKBACK_MINUTES,
               CPU_PCT_THRESHOLD     |-> CPU_PCT_THRESHOLD,
               IOPS_THRESHOLD        |-> IOPS_THRESHOLD,
               CONNECTIONS_THRESHOLD |-> CONNECTIONS_THRESHOLD]

-----------------------------------------------------------------------------
(* IdlePolicy *)

\* ssm.get_parameter answers with a value string, or raises
get_default_idle_minutes(resp) ==
    IF resp.raises THEN FALLBACK_IDLE_MINUTES
    ELSE IF int(resp.Value).raises THEN FALLBACK_IDLE_MINUTES
    ELSE int(resp.Value).val

RECURSIVE _get_tag_value(_, _)
_get_tag_value(tags, key) ==
    IF tags = <<>> THEN None
    ELSE IF Head(tags).Key = key THEN Head(tags).Value
    ELSE _get_tag_value(Tail(tags), key)

\* resp is what rds.list_tags_for_resource answers: a TagList, or it raises
get_effective_idle_minutes(resp, default_minutes) ==
    IF resp.raises THEN default_minutes
    ELSE LET override == _get_tag_value(resp.TagList, "IdleMinutes")
         IN  IF Truthy(override)
             THEN IF int(override).raises THEN default_minutes
                  ELSE int(override).val
             ELSE default_minutes

\* resp is cw.get_metric_data's answer: the Values of each of the four queries
fetch_idle_signals_for_instance(resp) ==
    [m_conn_max  |-> IF resp.conn_max # <<>> THEN MaxOf(resp.conn_max) ELSE 0,
     m_read_sum  |-> IF resp.read_sum # <<>> THEN SumOf(resp.read_sum) ELSE 0,
     m_write_sum |-> IF resp.write_sum # <<>> THEN SumOf(resp.write_sum) ELSE 0,
     m_cpu_max   |-> IF resp.cpu_max # <<>> THEN MaxOf(resp.cpu_max) ELSE 0]

\* lines 143-150 with a strict CPU comparison
is_instance_idle_strict_cpu(resp) ==
    LET m == fetch_idle_signals_for_instance(resp)
        total_iops == m.m_read_sum + m.m_write_sum
    IN  /\ m.m_conn_max <= env.CONNECTIONS_THRESHOLD
        /\ total_iops <= env.IOPS_THRESHOLD
        /\ m.m_cpu_max < env.CPU_PCT_THRESHOLD

\* lines 143-150
is_instance_idle(resp) ==
    LET m == fetch_idle_signals_for_instance(resp)
        total_iops == m.m_read_sum + m.m_write_sum
    IN  /\ m.m_conn_max <= env.CONNECTIONS_THRESHOLD
        /\ total_iops <= env.IOPS_THRESHOLD
        /\ m.m_cpu_max <= env.CPU_PCT_THRESHOLD

-----------------------------------------------------------------------------
(* Inputs drawn for the policy functions *)

OverrideChars == {"-", "+", "0", "3", " ", "a"}
OverrideStrings == Strs(OverrideChars, MaxOverrideLen)

EligibilityTag == [Key |-> "IdleShutdown", Value |-> <<"e", "n", "a", "b", "l", "e", "d">>]

\* tag lists with distinct keys: the eligibility tag and/or an IdleMinutes tag
TagLists(values) ==
    {<<>>, <<EligibilityTag>>}
    \cup {<<[Key |-> "IdleMinutes", Value |-> v]>> : v \in values}
    \cup {<<EligibilityTag, [Key |-> "IdleMinutes", Value |-> v]>> : v \in values}
    \cup {<<[Key |-> "IdleMinutes", Value |-> v], EligibilityTag>> : v \in values}

TagResponses(values) ==
    {[raises |-> TRUE, TagList |-> <<>>]}
    \cup {[raises |-> FALSE, TagList |-> t] : t \in TagLists(values)}

PolicyDefaults == {FALLBACK_IDLE_MINUTES, 10}

MetricResponses ==
    [conn_max  : Strs({0, 1}, MaxPoints),
     read_sum  : Strs({0, 1}, MaxPoints),
     write_sum : Strs({0, 1}, MaxPoints),
     cpu_max   : Strs({5, 10, 11}, MaxPoints)]

PolicyEnvs == {DefaultEnv,
               [DefaultEnv EXCEPT !.IOPS_THRESHOLD = 1, !.CONNECTIONS_THRESHOLD = 1]}

EmptyCatalog == [instances |-> <<>>, clusters |-> <<>>]

InitPolicy ==
    /\ env \in PolicyEnvs
    /\ pc = "policy"
    /\ pin \in [fn : {"get_effective_idle_minutes"},
                resp : TagResponses(OverrideStrings),
                default_minutes : PolicyDefaults]
               \cup [fn : {"is_instance_idle"}, resp : MetricResponses]
    /\ pout = None
    /\ catalog = EmptyCatalog
    /\ default_idle = 0
    /\ lookback_mins = 0
    /\ actions = <<>>
    /\ todo = <<>>
    /\ calls = <<>>
    /\ faults = 0
    /\ event = None
    /\ result = None

ApplyEffectiveIdleMinutes ==
    /\ pc = "policy"
    /\ pin.fn = "get_effective_idle_minutes"
    /\ pout' = get_effective_idle_minutes(pin.resp, pin.default_minutes)
    /\ pc' = "returned"
    /\ UNCHANGED <<env, catalog, default_idle, lookback_mins, actions, todo,
                   calls, faults, event, result, pin>>

ApplyIsInstanceIdle ==
    /\ pc = "policy"
    /\ pin.fn = "is_instance_idle"
    /\ pout' = is_instance_idle(pin.resp)
    /\ pc' = "returned"
    /\ UNCHANGED <<env, catalog, default_idle, lookback_mins, actions, todo,
                   calls, faults, event, result, pin>>

NextPolicy == ApplyEffectiveIdleMinutes \/ ApplyIsInstanceIdle

SpecPolicy == InitPolicy /\ [][NextPolicy]_vars

-----------------------------------------------------------------------------
(* Claims about the policy functions (checked under SpecPolicy) *)

AppliedWindow == pc = "returned" /\ pin.fn = "get_effective_idle_minutes"
AppliedIdle   == pc = "returned" /\ pin.fn = "is_instance_idle"

\* the IdleMinutes tag of the answer is present and parses as a positive integer
PositiveOverride(resp) ==
    /\ ~resp.raises
    /\ \E i \in 1..Len(resp.TagList) : resp.TagList[i].Key = "IdleMinutes"
    /\ LET v == _get_tag_value(resp.TagList, "IdleMinutes")
       IN  v # None /\ ~int(v).raises /\ int(v).val > 0

\* C2: get_effective_idle_minutes returns the IdleMinutes override exactly
\* when the tag is present and parses as a positive integer, and the fleet
\* default for every other override (absent, empty, non-numeric, negative,
\* zero).
C2_OverrideOnlyWhenPositive ==
    AppliedWindow =>
        pout = IF PositiveOverride(pin.resp)
               THEN int(_get_tag_value(pin.resp.TagList, "IdleMinutes")).val
               ELSE pin.default_minutes

\* C3: is_instance_idle is true if and only if every connection datapoint is
\* within the connections threshold, the read and write IOPS sums together
\* are within the IOPS threshold, and every CPU datapoint is within the CPU
\* threshold (a metric with no datapoints counts as 0); equality with a
\* threshold counts as idle.
C3_IdleIffAllThree ==
    AppliedIdle =>
        (pout <=>
            /\ \A i \in 1..Len(pin.resp.conn_max) :
                   pin.resp.conn_max[i] <= env.CONNECTIONS_THRESHOLD
            /\ SumOf(pin.resp.read_sum \o pin.resp.write_sum) <= env.IOPS_THRESHOLD
            /\ \A i \in 1..Len(pin.resp.cpu_max) :
                   pin.resp.cpu_max[i] <= env.CPU_PCT_THRESHOLD)

\* idle at exact equality with all three thresholds, each from a datapoint
C3_Witness ==
    /\ AppliedIdle
    /\ pout = TRUE
    /\ \E i \in 1..Len(pin.resp.cpu_max) : pin.resp.cpu_max[i] = env.CPU_PCT_THRESHOLD
    /\ \E i \in 1..Len(pin.resp.conn_max) : pin.resp.conn_max[i] = env.CONNECTIONS_THRESHOLD
    /\ env.IOPS_THRESHOLD = 1
    /\ SumOf(pin.resp.read_sum) + SumOf(pin.resp.write_sum) = 1


-----------------------------------------------------------------------------
(* The provider's catalog *)

REQUIRED_TAG_VALUE == <<"e", "n", "a", "b", "l", "e", "d">>

UpperToLower == [c \in {"A", "B", "D", "E", "L", "N"} |->
                   CASE c = "A" -> "a" [] c = "B" -> "b" [] c = "D" -> "d"
                     [] c = "E" -> "e" [] c = "L" -> "l" [] c = "N" -> "n"]

lower(s) == [i \in 1..Len(s) |->
               IF s[i] \in DOMAIN UpperToLower THEN UpperToLower[s[i]] ELSE s[i]]

\* values of the IdleShutdown tag; None: the resource has no such tag
EligibilityValues == {<<"E", "n", "a", "b", "l", "e", "d">>, None}

InstanceStatuses == {"available", "stopped"}
ClusterStatuses == {"available", "in-sync", "stopped"}

\* the account holds two instances and MaxClusters clusters
InstIds == {1, 2}
ClusterIds == 1..MaxClusters

\* Instance i of the account.  DBClusterIdentifier 0: the key is absent from
\* the description.  The status of an instance without the eligibility tag is
\* never read, and is fixed.
InstanceFleets ==
    {f \in {[i \in InstIds |->
                [DBInstanceIdentifier |-> i,
                 DBInstanceStatus     |-> st[i],
                 DBClusterIdentifier  |-> cl[i],
                 IdleShutdown         |-> tg[i]]] :
              st \in [InstIds -> InstanceStatuses],
              cl \in [InstIds -> {0} \cup ClusterIds],
              tg \in [InstIds -> EligibilityValues]} :
        \A i \in InstIds :
            f[i].IdleShutdown = None => f[i].DBInstanceStatus = "available"}

\* the members of cluster cid are the instances that name it, and at most one
\* of them (the w-th) is its writer
ClusterDescription(instances, cid, st, tg, w) ==
    LET members == SelectSeq(instances, LAMBDA d : d.DBClusterIdentifier = cid)
    IN  [DBClusterIdentifier |-> cid,
         Status              |-> st,
         IdleShutdown        |-> tg,
         DBClusterMembers    |->
             [k \in 1..Len(members) |->
                 [DBInstanceIdentifier |-> members[k].DBInstanceIdentifier,
                  IsClusterWriter      |-> (k = w)]]]

\* nothing but the tag is read of a cluster without the eligibility tag
ClusterFleets(instances) ==
    {[j \in ClusterIds |-> ClusterDescription(instances, j, st[j], tg[j], w[j])] :
        st \in [ClusterIds -> ClusterStatuses],
        tg \in [ClusterIds -> EligibilityValues],
        w  \in {x \in [ClusterIds -> 0..Cardinality(InstIds)] :
                   \A j \in ClusterIds :
                       x[j] <= Cardinality({i \in InstIds :
                                   instances[i].DBClusterIdentifier = j})}}

Canonical(cs) ==
    \A j \in ClusterIds :
        cs[j].IdleShutdown = None =>
            /\ cs[j].Status = "available"
            /\ \A k \in 1..Len(cs[j].DBClusterMembers) :
                   ~cs[j].DBClusterMembers[k].IsClusterWriter

HasRequiredTag(d) ==
    d.IdleShutdown # None /\ lower(d.IdleShutdown) = REQUIRED_TAG_VALUE

list_tagged_db_instances == SelectSeq(catalog.instances, HasRequiredTag)

list_tagged_db_clusters == SelectSeq(catalog.clusters, HasRequiredTag)

-----------------------------------------------------------------------------
(* Collaborator answers drawn in a sweep *)

Raises == [raises |-> TRUE]

\* ssm.get_parameter: the parameter is missing, or holds "10"
SsmResponses == {Raises, [raises |-> FALSE, Value |-> <<"1", "0">>]}

\* IdleMinutes overrides met in a sweep: below the lookback cap, above it,
\* and zero
SweepOverrides == {<<"5">>, <<"2", "5">>, <<"0">>}

SweepTagResponses(d) ==
    LET own == <<[Key |-> "IdleShutdown", Value |-> d.IdleShutdown]>>
    IN  {[raises |-> TRUE, TagList |-> <<>>], [raises |-> FALSE, TagList |-> own]}
        \cup {[raises |-> FALSE,
               TagList |-> own \o <<[Key |-> "IdleMinutes", Value |-> v]>>] :
                  v \in SweepOverrides}

QuietSample == [conn_max |-> <<0>>, read_sum |-> <<0>>, write_sum |-> <<0>>,
                cpu_max |-> <<5>>]
BusySample  == [conn_max |-> <<3>>, read_sum |-> <<0>>, write_sum |-> <<0>>,
                cpu_max |-> <<5>>]

\* cw.get_metric_data raises, or answers with datapoints
SweepMetricAnswers == {Raises, [raises |-> FALSE, values |-> QuietSample],
                               [raises |-> FALSE, values |-> BusySample]}

\* rds.stop_db_* / start_db_*: accepted, rejected with a ClientError, or
\* failing with an error that is no ClientError (a botocore connection error)
ProviderOutcomes == {"ok", "ClientError", "OtherError"}

-----------------------------------------------------------------------------
(* The sweep: handle_check *)

Raised == <<"<raised>">>

\* one collaborator call: the operation, its argument, the lookback of a
\* metric query, the resource under evaluation, and the collaborator's answer
Call(op, arg, lookback, for, resp) ==
    [op |-> op, arg |-> arg, lookback |-> lookback, for |-> for, resp |-> resp]

stop_instance(db_instance_id, outcome) ==
    [raises |-> outcome = "OtherError",
     ok     |-> outcome = "ok",
     msg    |-> IF outcome = "ok"
                THEN <<"Stop initiated for instance ", db_instance_id>>
                ELSE <<"Could not stop instance ", db_instance_id, ": ", "provider message">>]

stop_cluster(db_cluster_id, outcome) ==
    [raises |-> outcome = "OtherError",
     ok     |-> outcome = "ok",
     msg    |-> IF outcome = "ok"
                THEN <<"Stop initiated for cluster ", db_cluster_id>>
                ELSE <<"Could not stop cluster ", db_cluster_id, ": ", "provider message">>]

\* lines 190-195 without the status test
instance_skip_ignoring_status(dbi) ==
    IF dbi.DBClusterIdentifier # 0 THEN "member" ELSE "none"

\* lines 190-195 without the membership test
instance_skip_ignoring_membership(dbi) ==
    IF dbi.DBInstanceStatus # "available" THEN "status" ELSE "none"

\* lines 190-195: which precondition keeps an instance out of evaluation
instance_skip(dbi) ==
    IF dbi.DBInstanceStatus # "available" THEN "status"
    ELSE IF dbi.DBClusterIdentifier # 0 THEN "member"
    ELSE "none"

\* line 208
cluster_skip(dbc) == dbc.Status \notin {"available", "in-sync"}

\* lines 215-219 without the IsClusterWriter test: the first member
find_writer_any_member(members) ==
    IF members = <<>> THEN 0 ELSE Head(members).DBInstanceIdentifier

\* lines 215-219: the first member flagged as writer; 0 when there is none
RECURSIVE find_writer(_)
find_writer(members) ==
    IF members = <<>> THEN 0
    ELSE IF Head(members).IsClusterWriter THEN Head(members).DBInstanceIdentifier
    ELSE find_writer(Tail(members))

\* lines 198 and 225 without the cap
lookback_for_uncapped(idle_window, cap) == idle_window

\* lines 198 and 225: the lookback handed to is_instance_idle
lookback_for(idle_window, cap) == Min(idle_window, cap)

\* an exception leaves handle_check
Propagate(newCalls, newFaults) ==
    /\ calls' = newCalls
    /\ faults' = newFaults
    /\ pc' = "raised"
    /\ result' = Raised
    /\ UNCHANGED <<actions, todo>>

\* the loop body ends with one more line of the action log
Record(newCalls, msg, newFaults) ==
    /\ calls' = newCalls
    /\ faults' = newFaults
    /\ actions' = Append(actions, msg)
    /\ todo' = Tail(todo)
    /\ UNCHANGED <<pc, result>>

CheckBegin ==
    /\ pc = "start"
    /\ \E resp \in SsmResponses :
           default_idle' = get_default_idle_minutes(resp)
    /\ lookback_mins' = env.LOOKBACK_MINUTES
    /\ actions' = <<>>
    /\ todo' = list_tagged_db_instances
    /\ pc' = "instances"
    /\ UNCHANGED <<env, catalog, calls, faults, event, result, pin, pout>>

InstanceStep ==
    /\ pc = "instances"
    /\ todo # <<>>
    /\ LET dbi  == Head(todo)
           dbid == dbi.DBInstanceIdentifier
           for  == <<"instance", dbid>>
       IN  \/ /\ instance_skip(dbi) = "status"
              /\ Record(calls, <<"Skip ", dbid, ": status=", dbi.DBInstanceStatus>>, faults)
           \/ /\ instance_skip(dbi) = "member"
              /\ Record(calls, <<"Skip ", dbid, ": part of cluster ", dbi.DBClusterIdentifier>>,
                        faults)
           \/ /\ instance_skip(dbi) = "none"
              /\ \E tags \in SweepTagResponses(dbi), metric \in SweepMetricAnswers :
                   LET f1 == faults + (IF tags.raises THEN 1 ELSE 0)
                       idle_window == get_effective_idle_minutes(tags, default_idle)
                       c1 == calls
                             \o <<Call("list_tags_for_resource", for, None, for, tags),
                                  Call("get_metric_data", dbid,
                                       lookback_for(idle_window, lookback_mins), for, metric)>>
                   IN  /\ f1 <= MaxFaults
                       /\ \/ /\ metric.raises
                             /\ f1 < MaxFaults
                             /\ Propagate(c1, f1 + 1)
                          \/ /\ ~metric.raises
                             /\ ~is_instance_idle(metric.values)
                             /\ Record(c1, <<"Keep running ", dbid, ": not idle">>, f1)
                          \/ /\ ~metric.raises
                             /\ is_instance_idle(metric.values)
                             /\ \E outcome \in ProviderOutcomes :
                                  LET r  == stop_instance(dbid, outcome)
                                      f2 == f1 + (IF outcome = "ok" THEN 0 ELSE 1)
                                      c2 == Append(c1, Call("stop_db_instance", dbid, None,
                                                            for, outcome))
                                  IN  /\ f2 <= MaxFaults
                                      /\ IF r.raises THEN Propagate(c2, f2)
                                         ELSE Record(c2, r.msg, f2)
    /\ UNCHANGED <<env, catalog, default_idle, lookback_mins, event, pin, pout>>

InstancesDone ==
    /\ pc = "instances"
    /\ todo = <<>>
    /\ todo' = list_tagged_db_clusters
    /\ pc' = "clusters"
    /\ UNCHANGED <<env, catalog, default_idle, lookback_mins, actions, calls,
                   faults, event, result, pin, pout>>

ClusterStep ==
    /\ pc = "clusters"
    /\ todo # <<>>
    /\ LET dbc == Head(todo)
           cluster_id == dbc.DBClusterIdentifier
           for == <<"cluster", cluster_id>>
       IN  \/ /\ cluster_skip(dbc)
              /\ Record(calls, <<"Skip cluster ", cluster_id, ": status=", dbc.Status>>, faults)
           \/ /\ ~cluster_skip(dbc)
              /\ \E tags \in SweepTagResponses(dbc) :
                   LET f1 == faults + (IF tags.raises THEN 1 ELSE 0)
                       idle_window == get_effective_idle_minutes(tags, default_idle)
                       writer_inst == find_writer(dbc.DBClusterMembers)
                       c0 == Append(calls,
                                    Call("list_tags_for_resource", for, None, for, tags))
                   IN  /\ f1 <= MaxFaults
                       /\ \/ /\ writer_inst = 0
                             /\ Record(c0, <<"Skip cluster ", cluster_id, ": no writer found">>,
                                       f1)
                          \/ /\ writer_inst # 0
                             /\ \E metric \in SweepMetricAnswers :
                                  LET c1 == Append(c0,
                                                Call("get_metric_data", writer_inst,
                                                     lookback_for(idle_window, lookback_mins),
                                                     for, metric))
                                  IN  \/ /\ metric.raises
                                         /\ f1 < MaxFaults
                                         /\ Propagate(c1, f1 + 1)
                                      \/ /\ ~metric.raises
                                         /\ ~is_instance_idle(metric.values)
                                         /\ Record(c1, <<"Keep running cluster ", cluster_id,
                                                         ": not idle (writer=", writer_inst, ")">>,
                                                   f1)
                                      \/ /\ ~metric.raises
                                         /\ is_instance_idle(metric.values)
                                         /\ \E outcome \in ProviderOutcomes :
                                              LET r  == stop_cluster(cluster_id, outcome)
                                                  f2 == f1 + (IF outcome = "ok" THEN 0 ELSE 1)
                                                  c2 == Append(c1,
                                                          Call("stop_db_cluster", cluster_id,
                                                               None, for, outcome))
                                              IN  /\ f2 <= MaxFaults
                                                  /\ IF r.raises THEN Propagate(c2, f2)
                                                     ELSE Record(c2, r.msg, f2)
    /\ UNCHANGED <<env, catalog, default_idle, lookback_mins, event, pin, pout>>

CheckReturn ==
    /\ pc = "clusters"
    /\ todo = <<>>
    /\ result' = [actions |-> actions]
    /\ pc' = "done"
    /\ UNCHANGED <<env, catalog, default_idle, lookback_mins, actions, todo, calls,
                   faults, event, pin, pout>>

Init ==
    /\ env = DefaultEnv
    /\ pc = "start"
    /\ \E is \in InstanceFleets :
         \E cs \in {c \in ClusterFleets(is) : Canonical(c)} :
            catalog = [instances |-> is, clusters |-> cs]
    /\ default_idle = 0
    /\ lookback_mins = 0
    /\ actions = <<>>
    /\ todo = <<>>
    /\ calls = <<>>
    /\ faults = 0
    /\ event = None
    /\ result = None
    /\ pin = None
    /\ pout = None

Next == CheckBegin \/ InstanceStep \/ InstancesDone \/ ClusterStep \/ CheckReturn

Spec == Init /\ [][Next]_vars


-----------------------------------------------------------------------------
(* Claims about the sweep (checked under Spec) *)

InstancePrefixes == {"Skip ", "Stop initiated for instance ",
                     "Could not stop instance ", "Keep running "}
ClusterPrefixes  == {"Skip cluster ", "Stop initiated for cluster ",
                     "Could not stop cluster ", "Keep running cluster "}

\* the resource a line of the action log is about
SubjectOf(msg) ==
    IF msg[1] \in InstancePrefixes THEN <<"instance", msg[2]>>
    ELSE <<"cluster", msg[2]>>

\* the eligible resources in evaluation order
Eligible ==
    [k \in 1..Len(list_tagged_db_instances) |->
        <<"instance", list_tagged_db_instances[k].DBInstanceIdentifier>>]
    \o [k \in 1..Len(list_tagged_db_clusters) |->
        <<"cluster", list_tagged_db_clusters[k].DBClusterIdentifier>>]

LinesAbout(r) == {k \in 1..Len(actions) : SubjectOf(actions[k]) = r}

CallsFor(r, op) == {k \in 1..Len(calls) : calls[k].for = r /\ calls[k].op = op}

Stops == {"stop_db_instance", "stop_db_cluster"}

HasWriter(dbc) ==
    \E k \in 1..Len(dbc.DBClusterMembers) : dbc.DBClusterMembers[k].IsClusterWriter

\* C1: a failure of one resource's metric fetch or stop call never aborts the
\* sweep: handle_check does not raise, and the action list it returns holds
\* an entry for every eligible instance and cluster.
C1_SweepNeverAborts ==
    /\ pc # "raised"
    /\ pc = "done" =>
           \A k \in 1..Len(Eligible) :
               \E n \in 1..Len(result.actions) :
                   SubjectOf(result.actions[n]) = Eligible[k]

\* C10: the sweep ends with exactly one action-log entry per eligible resource,
\* the instances in catalog order and then the clusters in catalog order.
C10_OneEntryPerResourceInOrder ==
    pc \in {"done", "raised"} =>
        /\ pc = "done"
        /\ Len(result.actions) = Len(Eligible)
        /\ \A k \in 1..Len(Eligible) : SubjectOf(result.actions[k]) = Eligible[k]

\* C4: a stop call is made only right after a metric fetch for the same
\* resource whose sample is idle, and only for an instance that is available
\* and outside every cluster, or a cluster in an accepted status whose writer
\* the sample is of; a resource found not idle is logged as kept running and
\* not stopped, and a cluster without a writer is logged as skipped, with no
\* metric fetch and no stop call.
C4_StopOnlyWhenIdle ==
    /\ \A k \in 1..Len(calls) :
        calls[k].op \in Stops =>
            /\ k > 1
            /\ calls[k - 1].op = "get_metric_data"
            /\ calls[k - 1].for = calls[k].for
            /\ ~calls[k - 1].resp.raises
            /\ is_instance_idle(calls[k - 1].resp.values)
            /\ calls[k].op = "stop_db_instance" =>
                 /\ calls[k].for = <<"instance", calls[k].arg>>
                 /\ \E i \in DOMAIN catalog.instances :
                      /\ catalog.instances[i].DBInstanceIdentifier = calls[k].arg
                      /\ catalog.instances[i].DBInstanceStatus = "available"
                      /\ catalog.instances[i].DBClusterIdentifier = 0
            /\ calls[k].op = "stop_db_cluster" =>
                 /\ calls[k].for = <<"cluster", calls[k].arg>>
                 /\ \E j \in DOMAIN catalog.clusters :
                      /\ catalog.clusters[j].DBClusterIdentifier = calls[k].arg
                      /\ catalog.clusters[j].Status \in {"available", "in-sync"}
                      /\ \E m \in 1..Len(catalog.clusters[j].DBClusterMembers) :
                           /\ catalog.clusters[j].DBClusterMembers[m].IsClusterWriter
                           /\ catalog.clusters[j].DBClusterMembers[m].DBInstanceIdentifier
                                = calls[k - 1].arg
    /\ \A k \in 1..Len(calls) :
        (/\ calls[k].op = "get_metric_data"
         /\ ~calls[k].resp.raises
         /\ ~is_instance_idle(calls[k].resp.values)) =>
            /\ k < Len(calls) => calls[k + 1].op \notin Stops
            /\ CallsFor(calls[k].for, "stop_db_instance") = {}
            /\ CallsFor(calls[k].for, "stop_db_cluster") = {}
            /\ \E n \in LinesAbout(calls[k].for) :
                   actions[n][1] \in {"Keep running ", "Keep running cluster "}
    /\ \A j \in DOMAIN catalog.clusters :
        LET dbc == catalog.clusters[j]
            r   == <<"cluster", dbc.DBClusterIdentifier>>
        IN  (HasRequiredTag(dbc) /\ ~HasWriter(dbc)) =>
                /\ CallsFor(r, "stop_db_cluster") = {}
                /\ CallsFor(r, "get_metric_data") = {}
                /\ \A n \in LinesAbout(r) : actions[n][1] = "Skip cluster "
                /\ pc = "done" => LinesAbout(r) # {}

\* an idle standalone instance and an idle cluster were both stopped
C4_Witness ==
    /\ pc = "done"
    /\ \E k \in 1..Len(calls) : calls[k].op = "stop_db_instance"
    /\ \E k \in 1..Len(calls) : calls[k].op = "stop_db_cluster"

\* a writerless cluster in an accepted status was visited and skipped
C4_NoWriterVisited ==
    /\ pc = "done"
    /\ \E n \in 1..Len(actions) :
           actions[n][1] = "Skip cluster " /\ actions[n][3] = ": no writer found"

\* C5: an eligible instance whose status is not available, and an eligible
\* cluster whose status is neither available nor in-sync, is logged as skipped
\* for its status, and no metric fetch is made for it.
C5_StatusSkipNeverFetches ==
    /\ \A i \in DOMAIN catalog.instances :
        LET dbi == catalog.instances[i]
            r   == <<"instance", dbi.DBInstanceIdentifier>>
        IN  (HasRequiredTag(dbi) /\ dbi.DBInstanceStatus # "available") =>
                /\ CallsFor(r, "get_metric_data") = {}
                /\ \A n \in LinesAbout(r) :
                       actions[n] = <<"Skip ", dbi.DBInstanceIdentifier, ": status=",
                                      dbi.DBInstanceStatus>>
                /\ pc \in {"clusters", "done"} => LinesAbout(r) # {}
    /\ \A j \in DOMAIN catalog.clusters :
        LET dbc == catalog.clusters[j]
            r   == <<"cluster", dbc.DBClusterIdentifier>>
        IN  (HasRequiredTag(dbc) /\ dbc.Status \notin {"available", "in-sync"}) =>
                /\ CallsFor(r, "get_metric_data") = {}
                /\ \A n \in LinesAbout(r) :
                       actions[n] = <<"Skip cluster ", dbc.DBClusterIdentifier, ": status=",
                                      dbc.Status>>
                /\ pc = "done" => LinesAbout(r) # {}

\* a stopped instance and a stopped cluster were skipped in a sweep that
\* fetched metrics for another resource
C5_Witness ==
    /\ pc = "done"
    /\ \E n \in 1..Len(actions) :
           actions[n][1] = "Skip " /\ actions[n][3] = ": status="
    /\ \E n \in 1..Len(actions) :
           actions[n][1] = "Skip cluster " /\ actions[n][3] = ": status="
    /\ \E k \in 1..Len(calls) : calls[k].op = "get_metric_data"

\* C6: an instance that belongs to a cluster is never fetched or stopped on
\* its own account: the standalone pass logs it as skipped, stop_db_instance
\* is never called on it, and an idle sample of a cluster's writer is followed
\* by stop_db_cluster on the cluster.
C6_MemberNeverActedOn ==
    /\ \A i \in DOMAIN catalog.instances :
        LET dbi == catalog.instances[i]
            r   == <<"instance", dbi.DBInstanceIdentifier>>
        IN  dbi.DBClusterIdentifier # 0 =>
                /\ CallsFor(r, "get_metric_data") = {}
                /\ \A k \in 1..Len(calls) :
                       ~(calls[k].op = "stop_db_instance"
                         /\ calls[k].arg = dbi.DBInstanceIdentifier)
                /\ \A n \in LinesAbout(r) : actions[n][1] = "Skip "
                /\ (HasRequiredTag(dbi) /\ pc \in {"clusters", "done"}) =>
                       LinesAbout(r) # {}
    /\ \A k \in 1..Len(calls) :
        (/\ calls[k].op = "get_metric_data"
         /\ calls[k].for[1] = "cluster"
         /\ ~calls[k].resp.raises
         /\ is_instance_idle(calls[k].resp.values)) =>
            /\ k < Len(calls)
            /\ calls[k + 1].op = "stop_db_cluster"
            /\ calls[k + 1].arg = calls[k].for[2]

\* an eligible, available writer was skipped as a cluster member, and its idle
\* cluster was stopped
C6_Witness ==
    /\ pc = "done"
    /\ \E n \in 1..Len(actions) :
           actions[n][1] = "Skip " /\ actions[n][3] = ": part of cluster "
    /\ \E k \in 1..Len(calls) :
           /\ calls[k].op = "stop_db_cluster"
           /\ \E i \in DOMAIN catalog.instances :
                /\ catalog.instances[i].DBInstanceIdentifier = calls[k - 1].arg
                /\ HasRequiredTag(catalog.instances[i])
                /\ catalog.instances[i].DBInstanceStatus = "available"

\* C9: every metric fetch follows the tag lookup of the same resource, and its
\* lookback is the effective idle window of that lookup when the window is
\* within the lookback cap, and the cap otherwise.
C9_LookbackIsCappedWindow ==
    \A k \in 1..Len(calls) :
        calls[k].op = "get_metric_data" =>
            /\ k > 1
            /\ calls[k - 1].op = "list_tags_for_resource"
            /\ calls[k - 1].for = calls[k].for
            /\ LET w == get_effective_idle_minutes(calls[k - 1].resp, default_idle)
               IN  /\ calls[k].lookback <= env.LOOKBACK_MINUTES
                   /\ w <= env.LOOKBACK_MINUTES => calls[k].lookback = w
                   /\ w > env.LOOKBACK_MINUTES =>
                          calls[k].lookback = env.LOOKBACK_MINUTES

\* one fetch shortened by an override below the cap, and one override above
\* both the fleet default and the cap cut down to the cap
C9_Witness ==
    /\ default_idle = 10
    /\ \E k \in 1..Len(calls) :
           /\ calls[k].op = "get_metric_data"
           /\ calls[k].lookback = 5
    /\ \E k \in 1..Len(calls) :
           /\ calls[k].op = "get_metric_data"
           /\ calls[k].lookback = env.LOOKBACK_MINUTES
           /\ ~calls[k - 1].resp.raises
           /\ _get_tag_value(calls[k - 1].resp.TagList, "IdleMinutes") = <<"2", "5">>

-----------------------------------------------------------------------------
(* The on-demand start: handle_start *)

CLUSTER_PREFIX == <<"c", "l", "u", "s", "t", "e", "r", ":">>

\* json.dumps of a dict, given as its key/value pairs in insertion order:
\* the braces, and each key and value with its separators
RECURSIVE json_items(_)
json_items(pairs) ==
    IF pairs = <<>> THEN <<>>
    ELSE <<Head(pairs)[1], ": ", Head(pairs)[2]>>
         \o (IF Len(pairs) > 1 THEN <<", ">> ELSE <<>>)
         \o json_items(Tail(pairs))

json_dumps(pairs) == <<"{">> \o json_items(pairs) \o <<"}">>

_http(status, body) ==
    [statusCode |-> status,
     headers    |-> <<<<"Content-Type", "application/json">>>>,
     body       |-> json_dumps(body)]

start_instance(db_instance_id, outcome) ==
    [raises |-> outcome = "OtherError",
     ok     |-> outcome = "ok",
     msg    |-> IF outcome = "ok"
                THEN <<"Start initiated for instance ", db_instance_id>>
                ELSE <<"Could not start instance ", db_instance_id, ": ", "provider message">>]

start_cluster(db_cluster_id, outcome) ==
    [raises |-> outcome = "OtherError",
     ok     |-> outcome = "ok",
     msg    |-> IF outcome = "ok"
                THEN <<"Start initiated for cluster ", db_cluster_id>>
                ELSE <<"Could not start cluster ", db_cluster_id, ": ", "provider message">>]

\* a or b
Or(a, b) == IF Truthy(a) THEN a ELSE b

\* dict.get(key) of a dict given as its key/value pairs
RECURSIVE dict_get(_, _)
dict_get(pairs, key) ==
    IF pairs = <<>> THEN None
    ELSE IF Head(pairs)[1] = key THEN Head(pairs)[2]
    ELSE dict_get(Tail(pairs), key)

\* lines 235-236
requested_resource(ev) ==
    LET params == Or(dict_get(ev, "queryStringParameters"), <<>>)
    IN  Or(Or(dict_get(params, "resource"), dict_get(params, "db")), <<>>)

\* line 237 with the None test a slip would leave
is_missing_only_none(resource) == resource = None

\* line 237: not resource
is_missing(resource) == ~Truthy(resource)

\* line 240 with a substring test in place of the prefix test
is_cluster_ref_anywhere(resource) ==
    \E i \in 1..Len(resource) :
        i + Len(CLUSTER_PREFIX) - 1 <= Len(resource)
        /\ SubSeq(resource, i, i + Len(CLUSTER_PREFIX) - 1) = CLUSTER_PREFIX

\* line 240
is_cluster_ref(resource) == startswith(resource, CLUSTER_PREFIX)

\* what handle_start does with the provider answering `outcome`: the calls it
\* makes, and what it returns unless an exception leaves it
handle_start(ev, outcome) ==
    LET resource == requested_resource(ev)
    IN  IF is_missing(resource)
        THEN [calls  |-> <<>>, raises |-> FALSE,
              result |-> _http(400, <<<<"error", "missing resource parameter">>>>)]
        ELSE IF is_cluster_ref(resource)
        THEN LET cluster_id == split1_after(resource, CLUSTER_PREFIX)
                 r == start_cluster(cluster_id, outcome)
             IN  [calls  |-> <<Call("start_db_cluster", cluster_id, None, None, outcome)>>,
                  raises |-> r.raises,
                  result |-> _http(IF r.ok THEN 200 ELSE 400,
                                   <<<<"message", r.msg>>, <<"resource", cluster_id>>,
                                     <<"type", "cluster">>>>)]
        ELSE LET inst_id == resource
                 r == start_instance(inst_id, outcome)
             IN  [calls  |-> <<Call("start_db_instance", inst_id, None, None, outcome)>>,
                  raises |-> r.raises,
                  result |-> _http(IF r.ok THEN 200 ELSE 400,
                                   <<<<"message", r.msg>>, <<"resource", inst_id>>,
                                     <<"type", "instance">>>>)]

\* resource references a caller may send
StartRefs ==
    LET db1 == <<"d", "b", "1">>
        c1  == <<"c", "1">>
    IN  {<<>>, db1, c1, CLUSTER_PREFIX, CLUSTER_PREFIX \o c1,
         CLUSTER_PREFIX \o CLUSTER_PREFIX \o c1, db1 \o CLUSTER_PREFIX \o c1,
         <<"C">> \o Tail(CLUSTER_PREFIX) \o c1,
         SubSeq(CLUSTER_PREFIX, 1, Len(CLUSTER_PREFIX) - 1) \o c1}

\* query-string dicts: no parameter, resource, db, or both
QueryStrings ==
    {<<>>}
    \cup {<<<<"resource", r>>>> : r \in StartRefs}
    \cup {<<<<"db", d>>>> : d \in StartRefs}
    \cup {<<<<"resource", r>>, <<"db", d>>>> : r \in StartRefs, d \in StartRefs}

\* events with and without queryStringParameters
StartEvents ==
    {<<<<"requestContext", <<>>>>>>}
    \cup {<<<<"requestContext", <<>>>>, <<"queryStringParameters", q>>>> : q \in QueryStrings}

InitStart ==
    /\ env = DefaultEnv
    /\ pc = "start_request"
    /\ event \in StartEvents
    /\ catalog = EmptyCatalog
    /\ default_idle = 0
    /\ lookback_mins = 0
    /\ actions = <<>>
    /\ todo = <<>>
    /\ calls = <<>>
    /\ faults = 0
    /\ result = None
    /\ pin = None
    /\ pout = None

HandleStart ==
    /\ pc = "start_request"
    /\ \E outcome \in ProviderOutcomes :
         LET r == handle_start(event, outcome)
         IN  /\ calls' = r.calls
             /\ IF r.raises
                THEN pc' = "raised" /\ result' = Raised
                ELSE pc' = "returned" /\ result' = r.result
    /\ UNCHANGED <<env, catalog, default_idle, lookback_mins, actions, todo,
                   faults, event, pin, pout>>

NextStart == HandleStart

SpecStart == InitStart /\ [][NextStart]_vars

-----------------------------------------------------------------------------
(* Claims about the start (checked under SpecStart) *)

StartEnded == pc \in {"returned", "raised"}

\* the query-string parameters of the event, by name; <<>> for one not sent
Sent(name) ==
    IF \E i \in 1..Len(event) : event[i][1] = "queryStringParameters"
    THEN LET q == (CHOOSE i \in 1..Len(event) : event[i][1] = "queryStringParameters")
             qs == event[q][2]
         IN  IF \E i \in 1..Len(qs) : qs[i][1] = name
             THEN qs[CHOOSE i \in 1..Len(qs) : qs[i][1] = name][2]
             ELSE <<>>
    ELSE <<>>

\* the reference the caller sent: the resource parameter, or failing that the
\* db parameter; empty when neither holds a non-empty value
SentRef == IF Sent("resource") # <<>> THEN Sent("resource") ELSE Sent("db")

HasClusterPrefix(s) ==
    /\ Len(s) >= Len(CLUSTER_PREFIX)
    /\ \A i \in 1..Len(CLUSTER_PREFIX) : s[i] = CLUSTER_PREFIX[i]

AfterPrefix(s) == [i \in 1..(Len(s) - Len(CLUSTER_PREFIX)) |-> s[i + Len(CLUSTER_PREFIX)]]

\* C7: handle_start with a non-empty reference makes exactly one provider
\* call: start_db_cluster on what follows the prefix when the reference starts
\* with "cluster:", start_db_instance on the whole reference otherwise; it
\* makes no metric fetch and no stop call.
C7_StartRoutesByPrefix ==
    (StartEnded /\ SentRef # <<>>) =>
        /\ Len(calls) = 1
        /\ IF HasClusterPrefix(SentRef)
           THEN calls[1].op = "start_db_cluster" /\ calls[1].arg = AfterPrefix(SentRef)
           ELSE calls[1].op = "start_db_instance" /\ calls[1].arg = SentRef
        /\ \A k \in 1..Len(calls) :
               calls[k].op \notin Stops \cup {"get_metric_data", "list_tags_for_resource"}

\* a reference that holds "cluster:" past its start was started as an instance
C7_Witness ==
    /\ StartEnded
    /\ ~HasClusterPrefix(SentRef)
    /\ is_cluster_ref_anywhere(SentRef)
    /\ Len(calls) = 1
    /\ calls[1].op = "start_db_instance"

ValidationFailure == _http(400, <<<<"error", "missing resource parameter">>>>)

\* C8: handle_start without a reference, or with an empty one, returns the
\* request-validation failure and makes no provider call; every call the
\* provider rejects is reported with a result that differs from it.
C8_MissingResourceRejected ==
    /\ (StartEnded /\ SentRef = <<>>) =>
           /\ pc = "returned"
           /\ result = ValidationFailure
           /\ calls = <<>>
    /\ (pc = "returned" /\ calls # <<>>) =>
           /\ result # ValidationFailure
           /\ result.body # ValidationFailure.body
           /\ result.body[2] = "message"

\* an empty resource parameter and no db parameter: rejected without a call
C8_Witness ==
    /\ pc = "returned"
    /\ event = <<<<"requestContext", <<>>>>,
                 <<"queryStringParameters", <<<<"resource", <<>>>>>>>>>>
    /\ result = ValidationFailure
    /\ calls = <<>>

\* a provider-side failure was reported
C8_ProviderFailureReported ==
    /\ pc = "returned"
    /\ calls # <<>>
    /\ calls[1].resp = "ClientError"
    /\ result.statusCode = 400


=============================================================================
